---------------------------- MODULE Spec2Model ----------------------------
(***************************************************************************)
(* Clinical AI readmission-risk form (src/app.py).                         *)
(*                                                                         *)
(* The program is a Streamlit script: every interaction with a widget      *)
(* re-runs the script from its first line to its last.  One action of the  *)
(* model is one such run, triggered by one interaction.  The state is the  *)
(* cached oracle handle and schema, the widgets' values, the DataFrame     *)
(* built by the FEATURE PREP section and what the run left on the page.    *)
(*                                                                         *)
(* Numbers: the integer widgets are integers.  The float widgets           *)
(* (creatinine, hemoglobin, glucose) are held in hundredths, the step of   *)
(* a float number_input; a probability is held in 1/10000.                 *)
(* Strings that the code indexes or formats are sequences of one-character *)
(* strings.                                                                *)
(***************************************************************************)
EXTENDS Integers, Sequences, FiniteSets, TLC

VARIABLES
    model,              \* cached oracle handle (load_model)
    feature_columns,    \* cached schema (load_model)
    age, gender, los, prev_adm, comorbidity_count, num_medications,
    diagnosis_code, avg_creatinine, avg_hemoglobin, avg_glucose,
    input_data,         \* the DataFrame after FEATURE PREP of the last run
    page,               \* what the last run rendered
    predicted,          \* what predict_proba did in the last run
    runs                \* interactions so far in the session

cache == <<model, feature_columns>>
widgets == <<age, gender, los, prev_adm, comorbidity_count, num_medications,
             diagnosis_code, avg_creatinine, avg_hemoglobin, avg_glucose>>
vars == <<model, feature_columns, age, gender, los, prev_adm,
          comorbidity_count, num_medications, diagnosis_code, avg_creatinine,
          avg_hemoglobin, avg_glucose, input_data, page, predicted, runs>>

Range(s) == {s[i] : i \in 1..Len(s)}

-----------------------------------------------------------------------------
(* Bounds and the inputs drawn in the model.                               *)

\* interactions in one session
MaxRuns == 3

Letters == {"I", "e", "E"}
DefaultCode == <<"I", "5", "0", ".", "9">>
Codes == {<<>>, <<"e", "1", "1">>, <<"5">>, DefaultCode}

Ages == {18, 65}
Genders == {"Male", "Female"}
Stays == {7, 60}
PrevAdms == {0, 2}
Comorbidities == {2, 15}
Medications == {10, 14, 15}
Creatinines == {120, 200, 201}
Hemoglobins == {999, 1000, 1200}
Glucoses == {11000, 20000, 25000}

\* what predict_proba returns, in 1/10000, or that it raised
Probs == {0, 2999, 3000, 4999, 5000, 10000}
Raised == [raised |-> TRUE, prob |-> 0]
OracleOutcomes == {[raised |-> FALSE, prob |-> q] : q \in Probs} \cup {Raised}

SchemaFull ==
    <<"age", "length_of_stay", "previous_admissions", "comorbidity_count",
      "avg_creatinine", "avg_hemoglobin", "avg_glucose", "num_medications",
      "gender_M", "los_x_comorb", "glucose_flag", "creatinine_flag",
      "hb_flag", "polypharmacy_flag", "E", "I">>
SchemaOther ==
    <<"I", "polypharmacy_flag", "age", "ward", "los_x_comorb",
      "length_of_stay", "comorbidity_count", "glucose_flag",
      "creatinine_flag", "hb_flag", "E">>
Schemas == {SchemaFull, SchemaOther}

-----------------------------------------------------------------------------
(* FEATURE PREP                                                            *)

\* str.upper() on one character
Upper(c) == IF c = "e" THEN "E" ELSE c

\* the profile the widgets hold
Profile ==
    [age |-> age, gender |-> gender, los |-> los, prev_adm |-> prev_adm,
     comorbidity_count |-> comorbidity_count,
     num_medications |-> num_medications,
     diagnosis_code |-> diagnosis_code, avg_creatinine |-> avg_creatinine,
     avg_hemoglobin |-> avg_hemoglobin, avg_glucose |-> avg_glucose]

\* df[c] = v on a DataFrame: an existing column is overwritten in place, a
\* new one is appended
SetColumn(df, c, v) ==
    IF c \in Range(df.columns)
    THEN [df EXCEPT !.val[c] = v]
    ELSE [columns |-> Append(df.columns, c), val |-> (c :> v) @@ df.val]

\* mutant: the cutoff itself raises the flag
glucose_flag_inclusive(g) == IF g >= 200 * 100 THEN 1 ELSE 0
glucose_flag(g) == IF g > 200 * 100 THEN 1 ELSE 0
creatinine_flag(c) == IF c > 2 * 100 THEN 1 ELSE 0
hb_flag(h) == IF h < 10 * 100 THEN 1 ELSE 0
polypharmacy_flag(n) == IF n >= 15 THEN 1 ELSE 0
gender_M(g) == IF g = "Male" THEN 1 ELSE 0
\* mutant: a sum for the product
los_plus_comorb(l, c) == l + c
los_x_comorb(l, c) == l * c

\* pd.DataFrame({...}) and the five derived columns
ExplicitColumns ==
    <<"age", "length_of_stay", "previous_admissions", "comorbidity_count",
      "avg_creatinine", "avg_hemoglobin", "avg_glucose", "num_medications",
      "gender_M", "los_x_comorb", "glucose_flag", "creatinine_flag",
      "hb_flag", "polypharmacy_flag">>

ExplicitFrame(p) ==
    LET base == [columns |-> SubSeq(ExplicitColumns, 1, 9),
                 val |-> [c \in Range(SubSeq(ExplicitColumns, 1, 9)) |->
                     CASE c = "age" -> p.age
                       [] c = "length_of_stay" -> p.los
                       [] c = "previous_admissions" -> p.prev_adm
                       [] c = "comorbidity_count" -> p.comorbidity_count
                       [] c = "avg_creatinine" -> p.avg_creatinine
                       [] c = "avg_hemoglobin" -> p.avg_hemoglobin
                       [] c = "avg_glucose" -> p.avg_glucose
                       [] c = "num_medications" -> p.num_medications
                       [] c = "gender_M" -> gender_M(p.gender)]]
        d1 == SetColumn(base, "los_x_comorb",
                        los_x_comorb(p.los, p.comorbidity_count))
        d2 == SetColumn(d1, "glucose_flag", glucose_flag(p.avg_glucose))
        d3 == SetColumn(d2, "creatinine_flag",
                        creatinine_flag(p.avg_creatinine))
        d4 == SetColumn(d3, "hb_flag", hb_flag(p.avg_hemoglobin))
    IN  SetColumn(d4, "polypharmacy_flag",
                  polypharmacy_flag(p.num_medications))

\* for col in feature_columns: if col not in input_data.columns: ... = 0
RECURSIVE FillMissing(_, _, _)
FillMissing(df, schema, i) ==
    IF i > Len(schema) THEN df
    ELSE FillMissing(IF schema[i] \notin Range(df.columns)
                     THEN SetColumn(df, schema[i], 0)
                     ELSE df,
                     schema, i + 1)

\* if icd_group in feature_columns: input_data[icd_group] = 1
SetGroup(df, icd_group, schema) ==
    IF icd_group \in Range(schema) THEN SetColumn(df, icd_group, 1) ELSE df

\* mutant: the selection is left out
SelectColumnsOmitted(df, schema) == df

\* input_data[feature_columns]
SelectColumns(df, schema) ==
    [columns |-> schema, val |-> [c \in Range(schema) |-> df.val[c]]]

\* mutant: the default of 0 is written after the group flag, to every
\* column that is not explicitly produced
RECURSIVE ZeroOthers(_, _, _)
ZeroOthers(df, schema, i) ==
    IF i > Len(schema) THEN df
    ELSE ZeroOthers(IF schema[i] \notin Range(ExplicitColumns)
                    THEN SetColumn(df, schema[i], 0)
                    ELSE df,
                    schema, i + 1)
FeaturePrepFillLast(p, schema) ==
    LET icd_group == Upper(p.diagnosis_code[1])
    IN  SelectColumns(
            ZeroOthers(SetGroup(ExplicitFrame(p), icd_group, schema),
                       schema, 1),
            schema)

\* the whole section, for a code with a first character
FeaturePrep(p, schema) ==
    LET icd_group == Upper(p.diagnosis_code[1])
    IN  SelectColumns(
            SetGroup(FillMissing(ExplicitFrame(p), schema, 1),
                     icd_group, schema),
            schema)

NoFrame == [columns |-> <<>>, val |-> <<>>]


-----------------------------------------------------------------------------
(* hashlib.sha256.  A 32-bit word is the pair <<high 16 bits, low 16     *)
(* bits>>, so that no intermediate value leaves the 32-bit integers.       *)

K256 ==
    <<
      <<17034, 12184>>, <<28983, 17553>>, <<46528, 64463>>, <<59829, 56229>>,
      <<14678, 49755>>, <<23025, 4593>>, <<37439, 33444>>, <<43804, 24277>>,
      <<55303, 43672>>, <<4739, 23297>>, <<9265, 34238>>, <<21772, 32195>>,
      <<29374, 23924>>, <<32990, 45566>>, <<39900, 1703>>, <<49563, 61812>>,
      <<58523, 27073>>, <<61374, 18310>>, <<4033, 40390>>, <<9228, 41420>>,
      <<11753, 11375>>, <<19060, 33962>>, <<23728, 43484>>, <<30457, 35034>>,
      <<38974, 20818>>, <<43057, 50797>>, <<45059, 10184>>, <<48985, 32711>>,
      <<50912, 3059>>, <<54695, 37191>>, <<1738, 25425>>, <<5161, 10599>>,
      <<10167, 2693>>, <<11803, 8504>>, <<19756, 28156>>, <<21304, 3347>>,
      <<25866, 29524>>, <<30314, 2747>>, <<33218, 51502>>, <<37490, 11397>>,
      <<41663, 59553>>, <<43034, 26187>>, <<49739, 35696>>, <<51052, 20899>>,
      <<53650, 59417>>, <<54937, 1572>>, <<62478, 13701>>, <<4202, 41072>>,
      <<6564, 49430>>, <<7735, 27656>>, <<10056, 30540>>, <<13488, 48309>>,
      <<14620, 3251>>, <<20184, 43594>>, <<23452, 51791>>, <<26670, 28659>>,
      <<29839, 33518>>, <<30885, 25455>>, <<33992, 30740>>, <<36039, 520>>,
      <<37054, 65530>>, <<42064, 27883>>, <<48889, 41975>>, <<50801, 30962>>
    >>
H256 ==
    <<
      <<27145, 58983>>, <<47975, 44677>>, <<15470, 62322>>, <<42319, 62778>>,
      <<20750, 21119>>, <<39685, 26764>>, <<8067, 55723>>, <<23520, 52505>>
    >>

RECURSIVE Xor16(_, _, _)
Xor16(a, b, n) ==
    IF n = 0 THEN 0
    ELSE (((a % 2) + (b % 2)) % 2) + 2 * Xor16(a \div 2, b \div 2, n - 1)

RECURSIVE And16(_, _, _)
And16(a, b, n) ==
    IF n = 0 THEN 0
    ELSE ((a % 2) * (b % 2)) + 2 * And16(a \div 2, b \div 2, n - 1)

RECURSIVE Pow2(_)
Pow2(n) == IF n = 0 THEN 1 ELSE 2 * Pow2(n - 1)

WXor(x, y) == <<Xor16(x[1], y[1], 16), Xor16(x[2], y[2], 16)>>
WAnd(x, y) == <<And16(x[1], y[1], 16), And16(x[2], y[2], 16)>>
WNot(x) == <<65535 - x[1], 65535 - x[2]>>
WAdd(x, y) ==
    LET lo == x[2] + y[2]
    IN  <<(x[1] + y[1] + (lo \div 65536)) % 65536, lo % 65536>>

RotR(x, n) ==
    LET y == IF n >= 16 THEN <<x[2], x[1]>> ELSE x
        k == n % 16
        p == Pow2(k)
        q == Pow2(16 - k)
    IN  IF k = 0 THEN y
        ELSE <<(y[1] \div p) + (y[2] % p) * q, (y[2] \div p) + (y[1] % p) * q>>

ShR(x, n) ==
    LET p == Pow2(n % 16)
        q == Pow2(16 - (n % 16))
    IN  IF n >= 16 THEN <<0, x[1] \div p>>
        ELSE <<x[1] \div p, (x[2] \div p) + (x[1] % p) * q>>

SmallSigma0(x) == WXor(WXor(RotR(x, 7), RotR(x, 18)), ShR(x, 3))
SmallSigma1(x) == WXor(WXor(RotR(x, 17), RotR(x, 19)), ShR(x, 10))
BigSigma0(x) == WXor(WXor(RotR(x, 2), RotR(x, 13)), RotR(x, 22))
BigSigma1(x) == WXor(WXor(RotR(x, 6), RotR(x, 11)), RotR(x, 25))
Ch(x, y, z) == WXor(WAnd(x, y), WAnd(WNot(x), z))
Maj(x, y, z) == WXor(WXor(WAnd(x, y), WAnd(x, z)), WAnd(y, z))

\* the message, the 0x80 byte, zeros up to 56 modulo 64, the bit length
RECURSIVE Zeros(_)
Zeros(n) == IF n = 0 THEN <<>> ELSE <<0>> \o Zeros(n - 1)

Pad(bytes) ==
    LET bits == 8 * Len(bytes)
        z == (119 - (Len(bytes) % 64)) % 64
    IN  bytes \o <<128>> \o Zeros(z) \o Zeros(4)
            \o <<bits \div 16777216, (bits \div 65536) % 256,
                 (bits \div 256) % 256, bits % 256>>

BlockWords(m, b) ==
    [i \in 1..16 |->
        LET o == 64 * (b - 1) + 4 * (i - 1)
        IN  <<256 * m[o + 1] + m[o + 2], 256 * m[o + 3] + m[o + 4]>>]

RECURSIVE Schedule(_)
Schedule(w) ==
    IF Len(w) = 64 THEN w
    ELSE LET t == Len(w) + 1
         IN  Schedule(Append(w,
                 WAdd(WAdd(SmallSigma1(w[t - 2]), w[t - 7]),
                      WAdd(SmallSigma0(w[t - 15]), w[t - 16]))))

Step(s, k, w) ==
    LET t1 == WAdd(WAdd(WAdd(s[8], BigSigma1(s[5])), Ch(s[5], s[6], s[7])),
                   WAdd(k, w))
        t2 == WAdd(BigSigma0(s[1]), Maj(s[1], s[2], s[3]))
    IN  <<WAdd(t1, t2), s[1], s[2], s[3], WAdd(s[4], t1), s[5], s[6], s[7]>>

RECURSIVE Rounds(_, _, _)
Rounds(s, w, t) ==
    IF t > 64 \/ Len(s) # 8 THEN s
    ELSE Rounds(Step(s, K256[t], w[t]), w, t + 1)

Compress(h, w) ==
    LET s == Rounds(h, w, 1)
    IN  [i \in 1..8 |-> WAdd(h[i], s[i])]

RECURSIVE Blocks(_, _, _)
Blocks(h, m, b) ==
    IF 64 * (b - 1) >= Len(m) THEN h
    ELSE Blocks(Compress(h, Schedule(BlockWords(m, b))), m, b + 1)

Sha256(bytes) == Blocks(H256, Pad(bytes), 1)

\* hexdigest()[:12].upper(): the first 48 bits, as 12 hexadecimal digits
HexDigits ==
    <<"0", "1", "2", "3", "4", "5", "6", "7", "8", "9",
      "A", "B", "C", "D", "E", "F">>
Hex16(x) ==
    <<HexDigits[(x \div 4096) + 1], HexDigits[((x \div 256) % 16) + 1],
      HexDigits[((x \div 16) % 16) + 1], HexDigits[(x % 16) + 1]>>
HexPrefix12(h) == Hex16(h[1][1]) \o Hex16(h[1][2]) \o Hex16(h[2][1])

-----------------------------------------------------------------------------
(* The report identifier                                                   *)

\* the values datetime.now() may return
Clock ==
    {[year |-> 2026, month |-> 11, day |-> 2, hour |-> 18, minute |-> 43,
      second |-> 33, microsecond |-> 750719],
     [year |-> 2026, month |-> 11, day |-> 2, hour |-> 18, minute |-> 43,
      second |-> 52, microsecond |-> 351671]}

Digit == <<"0", "1", "2", "3", "4", "5", "6", "7", "8", "9">>

\* n in decimal, zero-padded to width digits
RECURSIVE Digits(_, _)
Digits(n, width) ==
    IF width = 0 THEN <<>>
    ELSE Append(Digits(n \div 10, width - 1), Digit[(n % 10) + 1])

\* str(n) of an int n >= 0
RECURSIVE StrInt(_)
StrInt(n) ==
    IF n < 10 THEN <<Digit[n + 1]>>
    ELSE Append(StrInt(n \div 10), Digit[(n % 10) + 1])

\* str(datetime): the fraction is omitted when microsecond is 0
StrDatetime(t) ==
    Digits(t.year, 4) \o <<"-">> \o Digits(t.month, 2) \o <<"-">>
        \o Digits(t.day, 2) \o <<" ">> \o Digits(t.hour, 2) \o <<":">>
        \o Digits(t.minute, 2) \o <<":">> \o Digits(t.second, 2)
        \o (IF t.microsecond = 0 THEN <<>>
            ELSE <<".">> \o Digits(t.microsecond, 6))

\* mutant: the time as the report prints it, strftime("%d %b %Y | %H:%M")
\* (the month left as a number)
IdMessageMinute(now, a, code) ==
    Digits(now.day, 2) \o <<" ">> \o Digits(now.month, 2) \o <<" ">>
        \o Digits(now.year, 4) \o <<" ">> \o Digits(now.hour, 2) \o <<":">>
        \o Digits(now.minute, 2) \o <<"-">> \o StrInt(a) \o <<"-">> \o code

\* f"{datetime.now()}-{age}-{diagnosis_code}"
IdMessage(now, a, code) ==
    StrDatetime(now) \o <<"-">> \o StrInt(a) \o <<"-">> \o code

\* str.encode() on the characters that occur
CodePoint(c) ==
    CASE c = " " -> 32 [] c = "-" -> 45 [] c = "." -> 46 [] c = ":" -> 58
      [] c = "0" -> 48 [] c = "1" -> 49 [] c = "2" -> 50 [] c = "3" -> 51
      [] c = "4" -> 52 [] c = "5" -> 53 [] c = "6" -> 54 [] c = "7" -> 55
      [] c = "8" -> 56 [] c = "9" -> 57 [] c = "E" -> 69 [] c = "I" -> 73
      [] c = "e" -> 101
Encode(str) == [i \in 1..Len(str) |-> CodePoint(str[i])]

ReportId(now, a, code) == HexPrefix12(Sha256(Encode(IdMessage(now, a, code))))

\* the identifiers of the triples the model draws, computed once
Triples == Clock \X Ages \X Codes
RECURSIVE IdTable(_)
IdTable(S) ==
    LET t == CHOOSE x \in S : TRUE
        entry == t :> ReportId(t[1], t[2], t[3])
    IN  IF S = {t} THEN entry ELSE entry @@ IdTable(S \ {t})
ReportIds == IdTable(Triples)

-----------------------------------------------------------------------------
(* ANALYZE                                                                 *)

\* mutant: strict comparisons
RiskLevelStrict(prob) ==
    IF prob > 5000 THEN [level |-> "HIGH", color |-> "#d62828"]
    ELSE IF prob > 3000 THEN [level |-> "MODERATE", color |-> "#f77f00"]
    ELSE [level |-> "LOW", color |-> "#2a9d8f"]

\* the if / elif / else on prob: the tier and the gauge bar's colour
RiskLevel(prob) ==
    IF prob >= 5000 THEN [level |-> "HIGH", color |-> "#d62828"]
    ELSE IF prob >= 3000 THEN [level |-> "MODERATE", color |-> "#f77f00"]
    ELSE [level |-> "LOW", color |-> "#2a9d8f"]

\* risk_percent = prob * 100, in 1/10000 of a percent
RiskPercent(prob) == prob * 100

\* mutant: the lower band ends at 35
GaugeStepsShifted ==
    <<[range |-> <<0, 35>>, color |-> "#2a9d8f"],
      [range |-> <<35, 50>>, color |-> "#f77f00"],
      [range |-> <<50, 100>>, color |-> "#d62828"]>>

\* the gauge's steps, their ranges in percent
GaugeSteps ==
    <<[range |-> <<0, 30>>, color |-> "#2a9d8f"],
      [range |-> <<30, 50>>, color |-> "#f77f00"],
      [range |-> <<50, 100>>, color |-> "#d62828"]>>

Gauge(risk_percent, color) ==
    [value |-> risk_percent, axis |-> <<0, 100>>, bar |-> color,
     steps |-> GaugeSteps]

RecommendHigh ==
    <<"Delay discharge until stabilization confirmed",
      "Repeat laboratory evaluation within 24 hours",
      "Comprehensive medication reconciliation",
      "Multidisciplinary case review",
      "Schedule follow-up within <= 7 days",
      "Evaluate caregiver support">>
RecommendModerate ==
    <<"Confirm discharge readiness",
      "Optimize medication adherence",
      "Structured discharge counseling",
      "Schedule follow-up within <= 14 days">>
RecommendLow ==
    <<"Proceed with standard discharge protocol",
      "Routine outpatient follow-up",
      "Educate patient on warning symptoms">>

\* the if / elif / else on level under "Clinical Recommendation"
Recommendation(level) ==
    IF level = "HIGH" THEN RecommendHigh
    ELSE IF level = "MODERATE" THEN RecommendModerate
    ELSE RecommendLow

\* generate_pdf(): the identifier, the patient table, the QR payload
generate_pdf(p, risk_percent, level, now) ==
    LET report_id == ReportIds[<<now, p.age, p.diagnosis_code>>]
    IN  [report_id |-> report_id,
         table |-> [Age |-> p.age, Gender |-> p.gender,
                    DiagnosisCode |-> p.diagnosis_code,
                    LengthOfStay |-> p.los,
                    PreviousAdmissions |-> p.prev_adm,
                    ComorbidityCount |-> p.comorbidity_count,
                    NumberOfMedications |-> p.num_medications,
                    Creatinine |-> p.avg_creatinine,
                    Hemoglobin |-> p.avg_hemoglobin,
                    Glucose |-> p.avg_glucose,
                    PredictedRisk |-> risk_percent,
                    RiskCategory |-> level],
         qr |-> [report_id |-> report_id, risk_level |-> level,
                 probability |-> risk_percent]]

NoGauge == [value |-> 0, axis |-> <<>>, bar |-> "", steps |-> <<>>]
NoPdf == [report_id |-> <<>>, table |-> <<>>, qr |-> <<>>]

\* a run that rendered no result: the button was not pressed (status
\* "idle"), or an exception left the script ("IndexError", "OracleError"),
\* which Streamlit shows on the page
PlainPage(status, button, calls) ==
    [status |-> status, button |-> button, oracle_calls |-> calls,
     prob |-> 0, now |-> <<>>, card |-> [number |-> 0, label |-> ""],
     gauge |-> NoGauge, pdfs_built |-> 0, pdf |-> NoPdf,
     download |-> FALSE, recommendation |-> <<>>]

\* the body of "if st.button(...)" once predict_proba has returned prob
ResultPage(p, prob, now) ==
    LET risk_percent == RiskPercent(prob)
        tier == RiskLevel(prob)
    IN  [status |-> "ok", button |-> TRUE, oracle_calls |-> 1,
         prob |-> prob, now |-> now,
         card |-> [number |-> risk_percent, label |-> tier.level],
         gauge |-> Gauge(risk_percent, tier.color),
         pdfs_built |-> 1,
         pdf |-> generate_pdf(p, risk_percent, tier.level, now),
         download |-> TRUE,
         recommendation |-> Recommendation(tier.level)]

\* mutant: a failed call is caught and scored as 0
AnalyzePageSwallow(p, outcome, now) ==
    IF outcome.raised THEN ResultPage(p, 0, now)
    ELSE ResultPage(p, outcome.prob, now)

\* the body of "if st.button(...)": predict_proba is called once; what it
\* raises leaves the script
AnalyzePage(p, outcome, now) ==
    IF outcome.raised THEN PlainPage("OracleError", TRUE, 1)
    ELSE ResultPage(p, outcome.prob, now)

-----------------------------------------------------------------------------
(* One run of the script over the profile p.  diagnosis_code[0] raises     *)
(* IndexError on an empty code and ends the run before FEATURE PREP.       *)

RunFrame(p, schema) ==
    IF Len(p.diagnosis_code) = 0 THEN NoFrame ELSE FeaturePrep(p, schema)

\* mutant: a run without the button leaves the last result on the page
RunPageKeep(p, button, outcome, now) ==
    IF Len(p.diagnosis_code) = 0 THEN PlainPage("IndexError", button, 0)
    ELSE IF ~button THEN page
    ELSE AnalyzePage(p, outcome, now)

RunPage(p, button, outcome, now) ==
    IF Len(p.diagnosis_code) = 0 THEN PlainPage("IndexError", button, 0)
    ELSE IF ~button THEN PlainPage("idle", FALSE, 0)
    ELSE AnalyzePage(p, outcome, now)

\* predict_proba is reached when the code has a first character and the
\* button is pressed
RunOracle(p, button, outcome) ==
    IF Len(p.diagnosis_code) = 0 \/ ~button THEN "not called"
    ELSE IF outcome.raised THEN "raised"
    ELSE "returned"

Run(p, button, outcome, now) ==
    /\ input_data' = RunFrame(p, feature_columns)
    /\ page' = RunPage(p, button, outcome, now)
    /\ predicted' = RunOracle(p, button, outcome)
    /\ runs < MaxRuns
    /\ runs' = runs + 1
    /\ UNCHANGED cache

NoTime == CHOOSE t \in Clock : TRUE

\* a widget changed: the script runs with the button not pressed
Rerun(p) == Run(p, FALSE, Raised, NoTime)

-----------------------------------------------------------------------------
(* Start: load_model() fills the cache, the widgets hold their defaults,   *)
(* and the script has run once.                                            *)

DefaultProfile ==
    [age |-> 65, gender |-> "Male", los |-> 7, prev_adm |-> 2,
     comorbidity_count |-> 2, num_medications |-> 10,
     diagnosis_code |-> DefaultCode, avg_creatinine |-> 120,
     avg_hemoglobin |-> 1200, avg_glucose |-> 11000]

Init ==
    /\ model = "readmission_model.json"
    /\ feature_columns \in Schemas
    /\ age = DefaultProfile.age
    /\ gender = DefaultProfile.gender
    /\ los = DefaultProfile.los
    /\ prev_adm = DefaultProfile.prev_adm
    /\ comorbidity_count = DefaultProfile.comorbidity_count
    /\ num_medications = DefaultProfile.num_medications
    /\ diagnosis_code = DefaultProfile.diagnosis_code
    /\ avg_creatinine = DefaultProfile.avg_creatinine
    /\ avg_hemoglobin = DefaultProfile.avg_hemoglobin
    /\ avg_glucose = DefaultProfile.avg_glucose
    /\ input_data = FeaturePrep(DefaultProfile, feature_columns)
    /\ page = PlainPage("idle", FALSE, 0)
    /\ predicted = "not called"
    /\ runs = 0

(* The interactions. *)

SetAge ==
    \E v \in Ages \ {age} :
        /\ age' = v
        /\ UNCHANGED <<gender, los, prev_adm, comorbidity_count,
                       num_medications, diagnosis_code, avg_creatinine,
                       avg_hemoglobin, avg_glucose>>
        /\ Rerun([Profile EXCEPT !.age = v])

SetGender ==
    \E v \in Genders \ {gender} :
        /\ gender' = v
        /\ UNCHANGED <<age, los, prev_adm, comorbidity_count,
                       num_medications, diagnosis_code, avg_creatinine,
                       avg_hemoglobin, avg_glucose>>
        /\ Rerun([Profile EXCEPT !.gender = v])

SetLos ==
    \E v \in Stays \ {los} :
        /\ los' = v
        /\ UNCHANGED <<age, gender, prev_adm, comorbidity_count,
                       num_medications, diagnosis_code, avg_creatinine,
                       avg_hemoglobin, avg_glucose>>
        /\ Rerun([Profile EXCEPT !.los = v])

SetPrevAdm ==
    \E v \in PrevAdms \ {prev_adm} :
        /\ prev_adm' = v
        /\ UNCHANGED <<age, gender, los, comorbidity_count,
                       num_medications, diagnosis_code, avg_creatinine,
                       avg_hemoglobin, avg_glucose>>
        /\ Rerun([Profile EXCEPT !.prev_adm = v])

SetComorbidityCount ==
    \E v \in Comorbidities \ {comorbidity_count} :
        /\ comorbidity_count' = v
        /\ UNCHANGED <<age, gender, los, prev_adm, num_medications,
                       diagnosis_code, avg_creatinine, avg_hemoglobin,
                       avg_glucose>>
        /\ Rerun([Profile EXCEPT !.comorbidity_count = v])

SetNumMedications ==
    \E v \in Medications \ {num_medications} :
        /\ num_medications' = v
        /\ UNCHANGED <<age, gender, los, prev_adm, comorbidity_count,
                       diagnosis_code, avg_creatinine, avg_hemoglobin,
                       avg_glucose>>
        /\ Rerun([Profile EXCEPT !.num_medications = v])

SetDiagnosisCode ==
    \E v \in Codes \ {diagnosis_code} :
        /\ diagnosis_code' = v
        /\ UNCHANGED <<age, gender, los, prev_adm, comorbidity_count,
                       num_medications, avg_creatinine, avg_hemoglobin,
                       avg_glucose>>
        /\ Rerun([Profile EXCEPT !.diagnosis_code = v])

SetCreatinine ==
    \E v \in Creatinines \ {avg_creatinine} :
        /\ avg_creatinine' = v
        /\ UNCHANGED <<age, gender, los, prev_adm, comorbidity_count,
                       num_medications, diagnosis_code, avg_hemoglobin,
                       avg_glucose>>
        /\ Rerun([Profile EXCEPT !.avg_creatinine = v])

SetHemoglobin ==
    \E v \in Hemoglobins \ {avg_hemoglobin} :
        /\ avg_hemoglobin' = v
        /\ UNCHANGED <<age, gender, los, prev_adm, comorbidity_count,
                       num_medications, diagnosis_code, avg_creatinine,
                       avg_glucose>>
        /\ Rerun([Profile EXCEPT !.avg_hemoglobin = v])

SetGlucose ==
    \E v \in Glucoses \ {avg_glucose} :
        /\ avg_glucose' = v
        /\ UNCHANGED <<age, gender, los, prev_adm, comorbidity_count,
                       num_medications, diagnosis_code, avg_creatinine,
                       avg_hemoglobin>>
        /\ Rerun([Profile EXCEPT !.avg_glucose = v])

\* the "Analyze Risk" button is pressed
Analyze ==
    \E outcome \in OracleOutcomes, now \in Clock :
        /\ UNCHANGED widgets
        /\ Run(Profile, TRUE, outcome, now)

\* the download button is pressed: the browser gets page.pdf and the
\* script runs again with the Analyze button not pressed
Download ==
    /\ page.download
    /\ UNCHANGED widgets
    /\ Rerun(Profile)

Next ==
    \/ SetAge
    \/ SetGender
    \/ SetLos
    \/ SetPrevAdm
    \/ SetComorbidityCount
    \/ SetNumMedications
    \/ SetDiagnosisCode
    \/ SetCreatinine
    \/ SetHemoglobin
    \/ SetGlucose
    \/ Analyze
    \/ Download

Spec == Init /\ [][Next]_vars

-----------------------------------------------------------------------------
(* Properties                                                              *)

\* FEATURE PREP ran to its end in the last run
Prepared == page.status # "IndexError"

\* the schema's columns that the code does not produce explicitly
OtherColumns == Range(feature_columns) \ Range(ExplicitColumns)

\* the triple the report identifier of the page was made from
PageTriple == <<page.now, age, diagnosis_code>>

\* C1: the feature vector handed to predict_proba has exactly the schema's
\* columns, in the schema's order, none extra and none missing.
C1_SchemaColumns ==
    predicted # "not called" =>
        /\ input_data.columns = feature_columns
        /\ DOMAIN input_data.val = Range(feature_columns)

C1_Witness ==
    /\ predicted = "returned"
    /\ feature_columns = SchemaOther
    /\ diagnosis_code = <<"5">>
    /\ input_data.columns = SchemaOther

\* C2: every probability gets exactly one tier: HIGH iff prob >= 0.50,
\* MODERATE iff 0.30 <= prob < 0.50, LOW iff prob < 0.30.
C2_TierPartition ==
    page.status = "ok" =>
        /\ page.card.label \in {"HIGH", "MODERATE", "LOW"}
        /\ page.card.label = "HIGH" <=> page.prob >= 5000
        /\ page.card.label = "MODERATE" <=>
               (page.prob >= 3000 /\ page.prob < 5000)
        /\ page.card.label = "LOW" <=> page.prob < 3000

C2_Witness ==
    /\ page.status = "ok"
    /\ page.prob = 3000
    /\ page.card.label = "MODERATE"

\* C3: with an empty diagnosis_code, or one whose first character is not a
\* letter, feature building does not fail: no diagnosis-group column is
\* set and a complete feature vector is still produced.
C3_SilentSkip ==
    (diagnosis_code = <<>> \/ diagnosis_code[1] \notin Letters) =>
        /\ Prepared
        /\ input_data.columns = feature_columns
        /\ \A c \in OtherColumns : input_data.val[c] = 0

\* C4: a schema column that is not explicitly produced is 1 if its name is
\* the uppercased first character of diagnosis_code and 0 otherwise.
C4_OneHot ==
    Prepared =>
        LET first == diagnosis_code[1]
            group == IF first = "e" THEN "E" ELSE first
        IN  \A c \in OtherColumns :
                input_data.val[c] = IF c = group THEN 1 ELSE 0

C4_Witness ==
    /\ Prepared
    /\ diagnosis_code = <<"e", "1", "1">>
    /\ feature_columns = SchemaOther
    /\ input_data.val["E"] = 1
    /\ input_data.val["I"] = 0
    /\ input_data.val["ward"] = 0

\* C5: each threshold flag is 0 or 1 and depends on its one input only:
\* glucose > 200, creatinine > 2, hemoglobin < 10, num_medications >= 15.
C5_Flags ==
    Prepared =>
        /\ input_data.val["glucose_flag"] =
               (IF avg_glucose > 20000 THEN 1 ELSE 0)
        /\ input_data.val["creatinine_flag"] =
               (IF avg_creatinine > 200 THEN 1 ELSE 0)
        /\ input_data.val["hb_flag"] =
               (IF avg_hemoglobin < 1000 THEN 1 ELSE 0)
        /\ input_data.val["polypharmacy_flag"] =
               (IF num_medications >= 15 THEN 1 ELSE 0)

C5_Witness ==
    /\ Prepared
    /\ avg_glucose = 20000
    /\ input_data.val["glucose_flag"] = 0
    /\ num_medications = 15
    /\ input_data.val["polypharmacy_flag"] = 1

\* C6: los_x_comorb is length_of_stay times comorbidity_count, and the
\* length_of_stay and comorbidity_count features are the inputs themselves.
C6_Interaction ==
    Prepared =>
        /\ input_data.val["los_x_comorb"] = los * comorbidity_count
        /\ input_data.val["length_of_stay"] = los
        /\ input_data.val["comorbidity_count"] = comorbidity_count

C6_Witness ==
    /\ Prepared
    /\ los = 60
    /\ comorbidity_count = 15
    /\ input_data.val["los_x_comorb"] = 900

\* C7 as stated: the identifier of a report is that of its (timestamp, age,
\* diagnosis_code) triple, and every other triple has another identifier.
C7_DistinctIds ==
    page.status = "ok" =>
        \A t \in Triples :
            /\ t = PageTriple => ReportIds[t] = page.pdf.report_id
            /\ t # PageTriple => ReportIds[t] # page.pdf.report_id

\* C7: the identifier of a report is that of its (timestamp, age,
\* diagnosis_code) triple, and every other triple is hashed from another
\* message.
C7_DistinctMessages ==
    page.status = "ok" =>
        \A t \in Triples :
            /\ t = PageTriple => ReportIds[t] = page.pdf.report_id
            /\ t # PageTriple =>
                   IdMessage(t[1], t[2], t[3]) #
                       IdMessage(page.now, age, diagnosis_code)

C7_Witness ==
    /\ page.status = "ok"
    /\ age = 18
    /\ diagnosis_code = <<"e", "1", "1">>
    /\ Len(page.pdf.report_id) = 12

\* C8: when predict_proba raises, the run ends there: one call, the
\* exception on the page, no tier, no gauge, no report, no download, no
\* recommendation.
C8_OracleFailureAborts ==
    predicted = "raised" =>
        /\ page.status = "OracleError"
        /\ page.oracle_calls = 1
        /\ page.card.label = ""
        /\ page.gauge = NoGauge
        /\ page.pdfs_built = 0
        /\ page.pdf = NoPdf
        /\ ~page.download
        /\ page.recommendation = <<>>

C8_Witness ==
    /\ predicted = "raised"
    /\ page.status = "OracleError"
    /\ page.button

\* what C9 says of one state, but for the number of reports: the feature
\* vector is that of the widgets' values, and a result on the page is that
\* of the widgets' values, the probability returned and the time read
C9_OwnInputs ==
    /\ Prepared => input_data = FeaturePrep(Profile, feature_columns)
    /\ page.status = "ok" => page = ResultPage(Profile, page.prob, page.now)
    /\ page.pdfs_built > 0 => page.button

\* C9 as stated: the cache is never changed, a run's outputs are those of
\* its own inputs, and every Analyze action builds exactly one report.
C9_OneReportPerAnalyze ==
    /\ [](C9_OwnInputs /\ (page.button <=> page.pdfs_built = 1))
    /\ [][UNCHANGED cache]_vars

\* C9: the cache is never changed, a run's outputs are those of its own
\* inputs, and an Analyze action builds one report when predict_proba
\* returns and none otherwise.
C9_OneReportPerResult ==
    /\ [](/\ C9_OwnInputs
          /\ page.pdfs_built \in {0, 1}
          /\ page.pdfs_built = 1 <=> predicted = "returned")
    /\ [][UNCHANGED cache]_vars

C9_Witness ==
    /\ runs = 3
    /\ page.status = "ok"
    /\ page.pdfs_built = 1
    /\ age = 18
    /\ avg_glucose = 25000

\* the gauge step of a tier
TierStep(level) ==
    IF level = "LOW" THEN 1 ELSE IF level = "MODERATE" THEN 2 ELSE 3

\* C10: within one Analyze action the tier label, the gauge bar's colour
\* (that of the gauge step holding the risk percentage), the recommendation
\* list, the report's Risk Category and the payload's Risk Level are those
\* of one tier.
C10_SameTier ==
    page.status = "ok" =>
        LET tier == page.card.label
            step == page.gauge.steps[TierStep(tier)]
        IN  /\ step.range[1] * 10000 <= page.gauge.value
            /\ page.gauge.value <= step.range[2] * 10000
            /\ page.gauge.bar = step.color
            /\ page.recommendation =
                   (IF tier = "HIGH" THEN RecommendHigh
                    ELSE IF tier = "MODERATE" THEN RecommendModerate
                    ELSE RecommendLow)
            /\ page.pdf.table.RiskCategory = tier
            /\ page.pdf.qr.risk_level = tier

C10_Witness ==
    /\ page.status = "ok"
    /\ page.prob = 3000
    /\ page.gauge.bar = "#f77f00"
    /\ page.recommendation = RecommendModerate
    /\ page.pdf.qr.risk_level = "MODERATE"

=============================================================================
